---- MODULE Spec2Model ----
(***************************************************************************)
(* One call of Container.Logs (internal/resource/container.go, 73-129):    *)
(* the calling goroutine (opener), the watchdog goroutine, the bridge      *)
(* goroutine that scans the stream, the consumer of the delivery channel   *)
(* c, and the caller holding the returned cancel function.                 *)
(*                                                                         *)
(* Go semantics kept: close of a closed channel and send on a closed       *)
(* channel panic and halt the whole process; a send on a full buffered     *)
(* channel blocks; context cancel is one-shot; r.mx is a RWMutex.          *)
(***************************************************************************)
EXTENDS Integers, Sequences, FiniteSets, TLC

\* ---- bounds --------------------------------------------------------------
MaxLines == 3          \* longest remote stream content, in lines
ChanCap == 1           \* capacity of the delivery channel made by the caller
MaxCancels == 2        \* how many times the caller invokes the returned handle

Lines == {"a", "b"}
Endings == {"eof", "err", "block"}

VARIABLES
  mainPc,       \* position of the Logs call itself
  wdPc,         \* position of the watchdog goroutine (79-94)
  bridgePc,     \* position of the bridge goroutine (109-126)
  blocked,      \* local `blocked`, line 78
  closes,       \* watchdog local `closes`, line 82
  mx,           \* r.mx: "free", "r" (read-locked), "w" (write-locked)
  cClosed,      \* channel c has been closed
  cBuf,         \* lines buffered in channel c
  ctxDone,      \* ctx.Done() is closed (cancel has fired)
  streamState,  \* handle returned by req.Stream(): "none", "open", "closed"
  rd,           \* number of lines the scanner has returned so far
  text,         \* scanner.Text() of the line being sent
  lines,        \* what the remote stream produces, in order
  ending,       \* what the remote stream does after its last line
  panic,        \* "none" or the runtime panic that halted the process
  received,     \* lines the consumer has taken from c
  sawClosed,    \* the consumer has observed c closed (receive with ok = false)
  callerCancels,\* calls of the returned cancel function so far
  closedBy,     \* who executed a successful close(c), in order
  firedBy,      \* who moved ctx from armed to fired, in order
  sentAfterFire,\* sends to c completed while ctx was already fired
  wdCheck       \* the watchdog's flag check: was the stream opened, and how
                \* many lines the consumer had by then (recv = -1: no check yet)

vars == <<mainPc, wdPc, bridgePc, blocked, closes, mx, cClosed, cBuf, ctxDone,
          streamState, rd, text, lines, ending, panic, received, sawClosed,
          callerCancels, closedBy, firedBy, sentAfterFire, wdCheck>>

RECURSIVE SeqsUpTo(_)
SeqsUpTo(n) ==
  IF n = 0 THEN {<<>>}
  ELSE LET S == SeqsUpTo(n - 1)
       IN S \cup {Append(s, l) : s \in {t \in S : Len(t) = n - 1}, l \in Lines}

Range(s) == {s[i] : i \in 1..Len(s)}

IsPrefix(s, t) == Len(s) <= Len(t) /\ SubSeq(t, 1, Len(s)) = s

Running == panic = "none"

Init ==
  /\ mainPc = "stream"
  /\ wdPc = "timer"
  /\ bridgePc = "idle"
  /\ blocked = TRUE
  /\ closes = FALSE
  /\ mx = "free"
  /\ cClosed = FALSE
  /\ cBuf = <<>>
  /\ ctxDone = FALSE
  /\ streamState = "none"
  /\ rd = 0
  /\ text = ""
  /\ lines \in SeqsUpTo(MaxLines)
  /\ ending \in Endings
  /\ panic = "none"
  /\ received = <<>>
  /\ sawClosed = FALSE
  /\ callerCancels = 0
  /\ closedBy = <<>>
  /\ firedBy = <<>>
  /\ sentAfterFire = 0
  /\ wdCheck = [opened |-> FALSE, recv |-> -1]

\* ---- shared primitives ---------------------------------------------------

\* close(c) executed by `who`: panics when c is already closed.
CloseChan(who) ==
  IF cClosed
  THEN /\ panic' = "close of closed channel"
       /\ UNCHANGED <<cClosed, closedBy>>
  ELSE /\ cClosed' = TRUE
       /\ closedBy' = Append(closedBy, who)
       /\ UNCHANGED panic

\* Variant: cancel() toggles the signal instead of latching it.
Cancel_Toggle(who) ==
  /\ ctxDone' = ~ctxDone
  /\ firedBy' = IF ctxDone THEN firedBy ELSE Append(firedBy, who)

\* cancel() executed by `who`: the first call fires ctx, later calls do nothing.
Cancel(who) ==
  /\ ctxDone' = TRUE
  /\ firedBy' = IF ctxDone THEN firedBy ELSE Append(firedBy, who)

\* ---- watchdog goroutine, lines 79-94 --------------------------------------

WdTimeout ==
  /\ Running /\ wdPc = "timer"
  /\ wdPc' = "rlock"
  /\ UNCHANGED <<wdCheck, mainPc, bridgePc, blocked, closes, mx, cClosed, cBuf, ctxDone,
                 streamState, rd, text, lines, ending, panic, received,
                 sawClosed, callerCancels, closedBy, firedBy, sentAfterFire>>

WdRLock ==
  /\ Running /\ wdPc = "rlock" /\ mx = "free"
  /\ mx' = "r"
  /\ wdPc' = "read"
  /\ UNCHANGED <<wdCheck, mainPc, bridgePc, blocked, closes, cClosed, cBuf, ctxDone,
                 streamState, rd, text, lines, ending, panic, received,
                 sawClosed, callerCancels, closedBy, firedBy, sentAfterFire>>

\* Variant: the watchdog never finds the open outstanding.
WdRead_NeverCloses ==
  /\ Running /\ wdPc = "read"
  /\ closes' = FALSE
  /\ wdCheck' = [opened |-> ~blocked, recv |-> Len(received)]
  /\ wdPc' = "runlock"
  /\ UNCHANGED <<mainPc, bridgePc, blocked, mx, cClosed, cBuf, ctxDone,
                 streamState, rd, text, lines, ending, panic, received,
                 sawClosed, callerCancels, closedBy, firedBy, sentAfterFire>>

\* Variant: the watchdog does not consult `blocked`.
WdRead_IgnoresFlag ==
  /\ Running /\ wdPc = "read"
  /\ closes' = TRUE
  /\ wdCheck' = [opened |-> ~blocked, recv |-> Len(received)]
  /\ wdPc' = "runlock"
  /\ UNCHANGED <<mainPc, bridgePc, blocked, mx, cClosed, cBuf, ctxDone,
                 streamState, rd, text, lines, ending, panic, received,
                 sawClosed, callerCancels, closedBy, firedBy, sentAfterFire>>


WdRead ==
  /\ Running /\ wdPc = "read"
  /\ closes' = blocked
  /\ wdCheck' = [opened |-> ~blocked, recv |-> Len(received)]
  /\ wdPc' = "runlock"
  /\ UNCHANGED <<mainPc, bridgePc, blocked, mx, cClosed, cBuf, ctxDone,
                 streamState, rd, text, lines, ending, panic, received,
                 sawClosed, callerCancels, closedBy, firedBy, sentAfterFire>>

WdRUnlock ==
  /\ Running /\ wdPc = "runlock"
  /\ mx' = "free"
  /\ wdPc' = IF closes THEN "close" ELSE "done"
  /\ UNCHANGED <<wdCheck, mainPc, bridgePc, blocked, closes, cClosed, cBuf, ctxDone,
                 streamState, rd, text, lines, ending, panic, received,
                 sawClosed, callerCancels, closedBy, firedBy, sentAfterFire>>

WdClose ==
  /\ Running /\ wdPc = "close"
  /\ CloseChan("watchdog")
  /\ wdPc' = IF cClosed THEN wdPc ELSE "cancel"
  /\ UNCHANGED <<wdCheck, mainPc, bridgePc, blocked, closes, mx, cBuf, ctxDone,
                 streamState, rd, text, lines, ending, received,
                 sawClosed, callerCancels, firedBy, sentAfterFire>>

\* Variant: the watchdog closes c but does not call cancel().
WdCancel_Skips ==
  /\ Running /\ wdPc = "cancel"
  /\ wdPc' = "done"
  /\ UNCHANGED <<wdCheck, mainPc, bridgePc, blocked, closes, mx, cClosed, cBuf,
                 ctxDone, streamState, rd, text, lines, ending, panic, received,
                 sawClosed, callerCancels, closedBy, firedBy, sentAfterFire>>

WdCancel ==
  /\ Running /\ wdPc = "cancel"
  /\ Cancel("watchdog")
  /\ wdPc' = "done"
  /\ UNCHANGED <<wdCheck, mainPc, bridgePc, blocked, closes, mx, cClosed, cBuf,
                 streamState, rd, text, lines, ending, panic, received,
                 sawClosed, callerCancels, closedBy, sentAfterFire>>

Watchdog == WdTimeout \/ WdRLock \/ WdRead \/ WdRUnlock \/ WdClose \/ WdCancel

\* ---- the Logs call itself, lines 96-108 and 128 ---------------------------

\* Variant: the error path closes c itself before returning.
StreamErr_ClosesChan ==
  /\ Running /\ mainPc = "stream"
  /\ CloseChan("opener")
  /\ mainPc' = "returnedErr"
  /\ UNCHANGED <<wdCheck, wdPc, bridgePc, blocked, closes, mx, cBuf, ctxDone,
                 streamState, rd, text, lines, ending, received,
                 sawClosed, callerCancels, firedBy, sentAfterFire>>

\* Variant: the error path calls cancel() before returning.
StreamErr_Cancels ==
  /\ Running /\ mainPc = "stream"
  /\ Cancel("opener")
  /\ mainPc' = "returnedErr"
  /\ UNCHANGED <<wdCheck, wdPc, bridgePc, blocked, closes, mx, cClosed, cBuf,
                 streamState, rd, text, lines, ending, panic, received,
                 sawClosed, callerCancels, closedBy, sentAfterFire>>

\* req.Stream() returns an error: log and `return cancel, err`.
StreamErr ==
  /\ Running /\ mainPc = "stream"
  /\ mainPc' = "returnedErr"
  /\ UNCHANGED <<wdCheck, wdPc, bridgePc, blocked, closes, mx, cClosed, cBuf, ctxDone,
                 streamState, rd, text, lines, ending, panic, received,
                 sawClosed, callerCancels, closedBy, firedBy, sentAfterFire>>

\* req.Stream() returns a stream.
StreamOk ==
  /\ Running /\ mainPc = "stream"
  /\ streamState' = "open"
  /\ mainPc' = "lock"
  /\ UNCHANGED <<wdCheck, wdPc, bridgePc, blocked, closes, mx, cClosed, cBuf, ctxDone,
                 rd, text, lines, ending, panic, received,
                 sawClosed, callerCancels, closedBy, firedBy, sentAfterFire>>

MainLock ==
  /\ Running /\ mainPc = "lock" /\ mx = "free"
  /\ mx' = "w"
  /\ mainPc' = "write"
  /\ UNCHANGED <<wdCheck, wdPc, bridgePc, blocked, closes, cClosed, cBuf, ctxDone,
                 streamState, rd, text, lines, ending, panic, received,
                 sawClosed, callerCancels, closedBy, firedBy, sentAfterFire>>

\* Variant: the opener never clears `blocked`.
MainWrite_Skips ==
  /\ Running /\ mainPc = "write"
  /\ mainPc' = "unlock"
  /\ UNCHANGED <<wdCheck, wdPc, bridgePc, blocked, closes, mx, cClosed, cBuf, ctxDone,
                 streamState, rd, text, lines, ending, panic, received,
                 sawClosed, callerCancels, closedBy, firedBy, sentAfterFire>>

MainWrite ==
  /\ Running /\ mainPc = "write"
  /\ blocked' = FALSE
  /\ mainPc' = "unlock"
  /\ UNCHANGED <<wdCheck, wdPc, bridgePc, closes, mx, cClosed, cBuf, ctxDone,
                 streamState, rd, text, lines, ending, panic, received,
                 sawClosed, callerCancels, closedBy, firedBy, sentAfterFire>>

MainUnlock ==
  /\ Running /\ mainPc = "unlock"
  /\ mx' = "free"
  /\ mainPc' = "go"
  /\ UNCHANGED <<wdCheck, wdPc, bridgePc, blocked, closes, cClosed, cBuf, ctxDone,
                 streamState, rd, text, lines, ending, panic, received,
                 sawClosed, callerCancels, closedBy, firedBy, sentAfterFire>>

\* `go func() {...}()` at line 109.
GoBridge ==
  /\ Running /\ mainPc = "go"
  /\ bridgePc' = "scan"
  /\ mainPc' = "return"
  /\ UNCHANGED <<wdCheck, wdPc, blocked, closes, mx, cClosed, cBuf, ctxDone,
                 streamState, rd, text, lines, ending, panic, received,
                 sawClosed, callerCancels, closedBy, firedBy, sentAfterFire>>

\* Variant: Logs returns only once the bridge has finished.
ReturnOk_WaitsForBridge ==
  /\ Running /\ mainPc = "return" /\ bridgePc = "done"
  /\ mainPc' = "returnedOk"
  /\ UNCHANGED <<wdCheck, wdPc, bridgePc, blocked, closes, mx, cClosed, cBuf, ctxDone,
                 streamState, rd, text, lines, ending, panic, received,
                 sawClosed, callerCancels, closedBy, firedBy, sentAfterFire>>

\* `return cancel, nil` at line 128.
ReturnOk ==
  /\ Running /\ mainPc = "return"
  /\ mainPc' = "returnedOk"
  /\ UNCHANGED <<wdCheck, wdPc, bridgePc, blocked, closes, mx, cClosed, cBuf, ctxDone,
                 streamState, rd, text, lines, ending, panic, received,
                 sawClosed, callerCancels, closedBy, firedBy, sentAfterFire>>

Opener == StreamErr \/ StreamOk \/ MainLock \/ MainWrite \/ MainUnlock
            \/ GoBridge \/ ReturnOk

\* ---- bridge goroutine, lines 109-126 --------------------------------------

\* scanner.Scan() returns true: the stream had another line.
ScanLine ==
  /\ Running /\ bridgePc = "scan" /\ rd < Len(lines)
  /\ rd' = rd + 1
  /\ text' = lines[rd + 1]
  /\ bridgePc' = "send"
  /\ UNCHANGED <<wdCheck, mainPc, wdPc, blocked, closes, mx, cClosed, cBuf, ctxDone,
                 streamState, lines, ending, panic, received,
                 sawClosed, callerCancels, closedBy, firedBy, sentAfterFire>>

\* scanner.Scan() returns false: end of data or a read error after the last line.
ScanEnd ==
  /\ Running /\ bridgePc = "scan" /\ rd = Len(lines) /\ ending \in {"eof", "err"}
  /\ bridgePc' = "deferClose"
  /\ UNCHANGED <<wdCheck, mainPc, wdPc, blocked, closes, mx, cClosed, cBuf, ctxDone,
                 streamState, rd, text, lines, ending, panic, received,
                 sawClosed, callerCancels, closedBy, firedBy, sentAfterFire>>

\* scanner.Scan() returns false because the request carries ctx (line 76) and
\* ctx has been cancelled: the pending read fails.
ScanAbort ==
  /\ Running /\ bridgePc = "scan" /\ ctxDone
  /\ bridgePc' = "deferClose"
  /\ UNCHANGED <<wdCheck, mainPc, wdPc, blocked, closes, mx, cClosed, cBuf, ctxDone,
                 streamState, rd, text, lines, ending, panic, received,
                 sawClosed, callerCancels, closedBy, firedBy, sentAfterFire>>

\* Variant: a send to a full channel drops the line instead of blocking.
Send_DropWhenFull ==
  /\ Running /\ bridgePc = "send"
  /\ IF cClosed
     THEN /\ panic' = "send on closed channel"
          /\ UNCHANGED <<cBuf, sentAfterFire, bridgePc>>
     ELSE /\ cBuf' = IF Len(cBuf) < ChanCap THEN Append(cBuf, text) ELSE cBuf
          /\ sentAfterFire' = IF ctxDone THEN sentAfterFire + 1 ELSE sentAfterFire
          /\ bridgePc' = "select"
          /\ UNCHANGED panic
  /\ UNCHANGED <<wdCheck, mainPc, wdPc, blocked, closes, mx, cClosed, ctxDone,
                 streamState, rd, text, lines, ending, received,
                 sawClosed, callerCancels, closedBy, firedBy>>

\* `c <- scanner.Text()`: panics on a closed channel, blocks while c is full.
\* (The deferred close(c) that runs while panicking panics again; the process
\* halts either way.)
Send ==
  /\ Running /\ bridgePc = "send"
  /\ IF cClosed
     THEN /\ panic' = "send on closed channel"
          /\ UNCHANGED <<cBuf, sentAfterFire, bridgePc>>
     ELSE /\ Len(cBuf) < ChanCap
          /\ cBuf' = Append(cBuf, text)
          /\ sentAfterFire' = IF ctxDone THEN sentAfterFire + 1 ELSE sentAfterFire
          /\ bridgePc' = "select"
          /\ UNCHANGED panic
  /\ UNCHANGED <<wdCheck, mainPc, wdPc, blocked, closes, mx, cClosed, ctxDone,
                 streamState, rd, text, lines, ending, received,
                 sawClosed, callerCancels, closedBy, firedBy>>

\* Variant: the loop never looks at ctx.Done().
Select_NoCheck ==
  /\ Running /\ bridgePc = "select"
  /\ bridgePc' = "scan"
  /\ UNCHANGED <<wdCheck, mainPc, wdPc, blocked, closes, mx, cClosed, cBuf, ctxDone,
                 streamState, rd, text, lines, ending, panic, received,
                 sawClosed, callerCancels, closedBy, firedBy, sentAfterFire>>

\* select { case <-ctx.Done(): return; default: }
Select ==
  /\ Running /\ bridgePc = "select"
  /\ bridgePc' = IF ctxDone THEN "deferClose" ELSE "scan"
  /\ UNCHANGED <<wdCheck, mainPc, wdPc, blocked, closes, mx, cClosed, cBuf, ctxDone,
                 streamState, rd, text, lines, ending, panic, received,
                 sawClosed, callerCancels, closedBy, firedBy, sentAfterFire>>

\* deferred cleanup, line 112: close(c)
DeferClose ==
  /\ Running /\ bridgePc = "deferClose"
  /\ CloseChan("bridge")
  /\ bridgePc' = IF cClosed THEN bridgePc ELSE "streamClose"
  /\ UNCHANGED <<wdCheck, mainPc, wdPc, blocked, closes, mx, cBuf, ctxDone,
                 streamState, rd, text, lines, ending, received,
                 sawClosed, callerCancels, firedBy, sentAfterFire>>

\* deferred cleanup, line 113: stream.Close()
DeferStreamClose ==
  /\ Running /\ bridgePc = "streamClose"
  /\ streamState' = "closed"
  /\ bridgePc' = "cancel"
  /\ UNCHANGED <<wdCheck, mainPc, wdPc, blocked, closes, mx, cClosed, cBuf, ctxDone,
                 rd, text, lines, ending, panic, received,
                 sawClosed, callerCancels, closedBy, firedBy, sentAfterFire>>

\* deferred cleanup, line 114: cancel()
DeferCancel ==
  /\ Running /\ bridgePc = "cancel"
  /\ Cancel("bridge")
  /\ bridgePc' = "done"
  /\ UNCHANGED <<wdCheck, mainPc, wdPc, blocked, closes, mx, cClosed, cBuf,
                 streamState, rd, text, lines, ending, panic, received,
                 sawClosed, callerCancels, closedBy, sentAfterFire>>

Bridge == ScanLine \/ ScanEnd \/ ScanAbort \/ Send \/ Select
            \/ DeferClose \/ DeferStreamClose \/ DeferCancel

\* ---- consumer of c and holder of the returned cancel ----------------------

\* `line, ok := <-c` with a buffered line available.
Recv ==
  /\ Running /\ cBuf # <<>>
  /\ received' = Append(received, Head(cBuf))
  /\ cBuf' = Tail(cBuf)
  /\ UNCHANGED <<wdCheck, mainPc, wdPc, bridgePc, blocked, closes, mx, cClosed, ctxDone,
                 streamState, rd, text, lines, ending, panic,
                 sawClosed, callerCancels, closedBy, firedBy, sentAfterFire>>

\* `line, ok := <-c` on a closed and drained channel: ok = false.
RecvClosed ==
  /\ Running /\ cBuf = <<>> /\ cClosed /\ ~sawClosed
  /\ sawClosed' = TRUE
  /\ UNCHANGED <<wdCheck, mainPc, wdPc, bridgePc, blocked, closes, mx, cClosed, cBuf,
                 ctxDone, streamState, rd, text, lines, ending, panic, received,
                 callerCancels, closedBy, firedBy, sentAfterFire>>

Consumer == Recv \/ RecvClosed

\* The caller invokes the context.CancelFunc that Logs returned (lines 100, 128).
CallerCancel ==
  /\ Running /\ mainPc \in {"returnedOk", "returnedErr"}
  /\ callerCancels < MaxCancels
  /\ Cancel("caller")
  /\ callerCancels' = callerCancels + 1
  /\ UNCHANGED <<wdCheck, mainPc, wdPc, bridgePc, blocked, closes, mx, cClosed, cBuf,
                 streamState, rd, text, lines, ending, panic, received,
                 sawClosed, closedBy, sentAfterFire>>

\* ---- specifications -------------------------------------------------------

Next == Watchdog \/ Opener \/ Bridge \/ Consumer \/ CallerCancel

Spec == Init /\ [][Next]_vars

\* Goroutines that can run do run, the timer fires, and the consumer keeps
\* receiving.  req.Stream() may block for ever and the caller need not cancel.
OpenerAfterStream == MainLock \/ MainWrite \/ MainUnlock \/ GoBridge \/ ReturnOk

FairSpec ==
  /\ Spec
  /\ WF_vars(Watchdog)
  /\ WF_vars(OpenerAfterStream)
  /\ WF_vars(Bridge)
  /\ WF_vars(Consumer)

\* The same, with a consumer that may stop receiving for good.
StalledConsumerSpec ==
  /\ Spec
  /\ WF_vars(Watchdog)
  /\ WF_vars(OpenerAfterStream)
  /\ WF_vars(Bridge)

TypeOK ==
  /\ mainPc \in {"stream", "lock", "write", "unlock", "go", "return",
                 "returnedOk", "returnedErr"}
  /\ wdPc \in {"timer", "rlock", "read", "runlock", "close", "cancel", "done"}
  /\ bridgePc \in {"idle", "scan", "send", "select", "deferClose",
                   "streamClose", "cancel", "done"}
  /\ blocked \in BOOLEAN /\ closes \in BOOLEAN
  /\ mx \in {"free", "r", "w"}
  /\ cClosed \in BOOLEAN /\ ctxDone \in BOOLEAN /\ sawClosed \in BOOLEAN
  /\ Len(cBuf) <= ChanCap
  /\ streamState \in {"none", "open", "closed"}
  /\ rd \in 0..Len(lines)
  /\ panic \in {"none", "close of closed channel", "send on closed channel"}
  /\ callerCancels \in 0..MaxCancels

\* ---- properties -----------------------------------------------------------

\* C1: the delivery channel c is closed at most once; no close(c) is ever
\* executed on an already closed channel.
C1_ClosedAtMostOnce == panic # "close of closed channel"

\* C2: c is never written to after it has been closed; no send is executed or
\* pending on a closed channel.
C2_NoSendAfterClose ==
  /\ panic # "send on closed channel"
  /\ ~(bridgePc = "send" /\ cClosed)

\* The events that start one of the exit paths of a Logs call.
ExitTriggered ==
  \/ mainPc = "returnedErr"
  \/ wdPc = "close"
  \/ callerCancels > 0
  \/ bridgePc = "deferClose"
  \/ /\ bridgePc \in {"scan", "send", "select"}
     /\ rd = Len(lines) /\ ending \in {"eof", "err"}

\* C3: under weak fairness and a consumer that keeps receiving, every exit path
\* (stream end, read failure, open failure, watchdog timeout, caller cancel)
\* leads to the delivery channel being closed.
C3_EventuallyClosed == ExitTriggered ~> cClosed

C3_Witness ==
  /\ ending = "block" /\ firedBy = <<"caller">>
  /\ closedBy = <<"bridge">> /\ sawClosed

\* C4 as stated: when req.Stream() fails, at the return the channel is already
\* closed, no line is or will be delivered, and the bridge was never started.
C4_ClosedAtErrorReturn ==
  mainPc = "returnedErr" =>
    /\ cClosed
    /\ received = <<>> /\ cBuf = <<>>
    /\ bridgePc = "idle"

\* C4 amended: when req.Stream() fails, the bridge is never started and no line
\* is ever delivered; the channel is closed by the watchdog alone, so it is
\* closed exactly when the watchdog found `blocked` true and has closed it.
C4_OpenFailure ==
  mainPc = "returnedErr" =>
    /\ bridgePc = "idle" /\ rd = 0
    /\ received = <<>> /\ cBuf = <<>>
    /\ cClosed <=> (closes /\ wdPc \in {"cancel", "done"})
    /\ closedBy \in {<<>>, <<"watchdog">>}

C4_Witness ==
  /\ mainPc = "returnedErr" /\ wdPc = "timer" /\ ~cClosed /\ callerCancels > 0

\* C5 as stated: in the state where Logs has returned an error, the
\* cancellation signal is fired.
C5_FiredAtErrorReturn == mainPc = "returnedErr" => ctxDone

\* C5 amended: the error path returns the handle without firing the signal;
\* after an error return the signal is fired exactly when the watchdog has
\* timed out and fired it or the caller has invoked the handle.
C5_ErrorReturnKeepsCtx ==
  mainPc = "returnedErr" =>
    /\ ctxDone <=> (callerCancels > 0 \/ (closes /\ wdPc = "done"))
    /\ firedBy \in {<<>>, <<"watchdog">>, <<"caller">>}

C5_Witness == mainPc = "returnedErr" /\ ~ctxDone /\ wdPc = "close"

\* C6: with no caller cancel and an inert watchdog, what the consumer has
\* received is always a prefix of what the stream produces, and once the
\* consumer sees c closed it is the whole sequence.
C6_OrderedDelivery ==
  (callerCancels = 0 /\ ~closes /\ streamState # "none") =>
    /\ IsPrefix(received, lines)
    /\ sawClosed => received = lines

C6_Witness ==
  /\ callerCancels = 0 /\ ~closes /\ wdPc = "done"
  /\ sawClosed /\ Len(lines) >= 2 /\ received = lines

\* C7: once the watchdog has found `blocked` true at the timeout, it closes
\* the delivery channel and fires the cancellation signal.
C7_WatchdogClosesAndFires == (wdPc = "close" /\ closes) ~> (cClosed /\ ctxDone)

\* C8: if `blocked` was already false at the watchdog's flag check, the
\* watchdog neither closes c nor fires the signal.
C8_InertWatchdog ==
  (wdCheck.recv >= 0 /\ wdCheck.opened) =>
    /\ wdPc \in {"runlock", "done"}
    /\ "watchdog" \notin Range(closedBy)
    /\ "watchdog" \notin Range(firedBy)

\* ... and a line is delivered to the consumer after that check.
C8_Witness ==
  /\ wdCheck.opened /\ wdCheck.recv = 0 /\ wdPc = "done"
  /\ Len(received) >= 1 /\ panic = "none"

CancelRequest == WdCancel \/ DeferCancel \/ CallerCancel

\* C9: the signal goes from armed to fired at most once and never back; a
\* cancel request on a fired signal changes nothing of the session; the
\* caller's handle never closes c and never panics.
C9_CancelOneShot ==
  [][ /\ ctxDone => ctxDone'
      /\ Len(firedBy') <= 1
      /\ (ctxDone /\ CancelRequest) =>
            UNCHANGED <<ctxDone, firedBy, cClosed, closedBy, cBuf, received,
                        blocked, streamState, panic>>
      /\ CallerCancel => UNCHANGED <<cClosed, closedBy, panic>> ]_vars

C9_Witness ==
  /\ callerCancels = 2 /\ bridgePc = "done" /\ firedBy = <<"caller">>
  /\ closedBy = <<"bridge">> /\ panic = "none"

\* C10: after the signal has fired the bridge completes at most one more send.
C10_AtMostOneMoreLine == sentAfterFire <= 1

\* ... and it stops with lines left unread in the stream.
C10_Witness ==
  /\ bridgePc = "done" /\ sentAfterFire = 1 /\ rd < Len(lines)
  /\ streamState = "closed"

\* C11: the stream yields one line and then blocks for ever; once the consumer
\* has that line and the caller has cancelled, the consumer eventually sees c
\* closed, having received nothing more.
C11_CancelDuringRead ==
  (Len(lines) = 1 /\ ending = "block" /\ received = lines /\ callerCancels > 0)
    ~> (sawClosed /\ received = lines)

\* C12: the watchdog's check-then-act is atomic with the opener's flag write:
\* the watchdog never closes c in a state where `blocked` is already false.
C12_AtomicCheckThenAct == [][WdClose => blocked]_vars

\* C13: once the bridge has stopped its cleanup has completed all three steps
\* (c closed, stream closed, signal fired), and no state in which the program
\* has come to a halt leaves the stream handle open.
C13_CleanupCompletes ==
  /\ bridgePc = "done" => (cClosed /\ streamState = "closed" /\ ctxDone)
  /\ panic # "none" => streamState # "open"

\* C14: a bridge suspended in a send to a full c, with a consumer that never
\* receives again, leaves the send once the signal has fired and runs its
\* cleanup (c closed, stream closed).  Stated with an inert watchdog.
C14_SendEscapesOnCancel ==
  (/\ bridgePc = "send" /\ Len(cBuf) = ChanCap /\ ctxDone
   /\ wdPc = "done" /\ ~closes)
    ~> (Len(cBuf) < ChanCap \/ (cClosed /\ streamState = "closed"))

\* What the bridge holds in a send that has not completed.
PendingSend == IF bridgePc = "send" THEN <<text>> ELSE <<>>

\* C15: no line is dropped or overwritten - the lines read so far are exactly
\* the lines received, then the lines buffered in c, then the pending send -
\* and the bridge is ahead of the consumer by at most the capacity plus one.
C15_Backpressure ==
  /\ SubSeq(lines, 1, rd) = received \o cBuf \o PendingSend
  /\ rd - Len(received) <= ChanCap + 1

\* The bridge blocked in a send on a full channel.
C15_Witness ==
  /\ bridgePc = "send" /\ Len(cBuf) = ChanCap /\ ~cClosed /\ panic = "none"
  /\ rd - Len(received) = ChanCap + 1


\* C16: `blocked` is written only by the opener, only with the stream open,
\* goes from true to false and never back; it is false whenever the bridge
\* has been started, and stays true after an open failure.
C16_FlagWrittenOnce ==
  [][ /\ blocked' # blocked => (MainWrite /\ streamState = "open")
      /\ ~blocked => ~blocked'
      /\ (bridgePc' # "idle" \/ rd' > 0) => ~blocked'
      /\ mainPc' = "returnedErr" => blocked' ]_vars

C16_Witness ==
  /\ ~blocked /\ bridgePc = "done" /\ Len(received) >= 1 /\ panic = "none"


\* C17: on the success path Logs never waits for the bridge, the consumer or
\* the stream - its next step is always possible, except while the watchdog
\* holds the read lock - and it never sends to c or closes c itself.
C17_ReturnWithoutWaiting ==
  /\ []((/\ Running /\ mx # "r"
         /\ mainPc \in {"lock", "write", "unlock", "go", "return"})
           => ENABLED OpenerAfterStream)
  /\ [][Opener => UNCHANGED <<cClosed, closedBy, cBuf, received, sawClosed,
                              panic, ctxDone>>]_vars

\* Logs has returned nil while the bridge has read nothing from a stream that
\* never produces and never ends.
C17_Witness ==
  /\ mainPc = "returnedOk" /\ ending = "block" /\ lines = <<>>
  /\ bridgePc = "scan" /\ rd = 0 /\ received = <<>> /\ ~cClosed /\ ~ctxDone


\* C18 as stated: when the open fails the watchdog is still pending and c is
\* not yet closed, so on this path c is never closed before Logs returns.
C18_ClosedOnlyAfterReturn ==
  [][StreamErr => (~cClosed /\ wdPc # "done")]_vars

\* C18 amended: after an open failure `blocked` stays true and only the
\* watchdog ever closes c, once, after its timeout; the watchdog does close c
\* and fire the signal, whether before or after Logs returned.
C18_WatchdogClosesAfterOpenFailure ==
  /\ [](mainPc = "returnedErr" =>
          /\ blocked /\ panic = "none"
          /\ closedBy \in {<<>>, <<"watchdog">>}
          /\ cClosed => (wdCheck.recv >= 0 /\ ~wdCheck.opened))
  /\ (mainPc = "returnedErr")
       ~> (closedBy = <<"watchdog">> /\ ctxDone /\ wdPc = "done")

C18_Witness ==
  /\ mainPc = "returnedErr" /\ wdPc = "done" /\ sawClosed
  /\ closedBy = <<"watchdog">> /\ firedBy = <<"watchdog">>


\* C19: at both cleanup sites c is closed before the signal is fired, and
\* whenever c has been closed the signal is eventually fired.
C19_CloseThenFire ==
  /\ [][(WdCancel \/ DeferCancel) => cClosed]_vars
  /\ cClosed ~> ctxDone


====
